---------------------------- MODULE Spec2Model ----------------------------
(***************************************************************************)
(* Model of the magnitude estimation and duration formatting of           *)
(* main.py (calculate_lhc_input_time) and parallel_lhc_computation.py     *)
(* (create_parallel_superposition, format_large_number,                   *)
(* format_time_impossible, compare_sequential_vs_parallel).               *)
(*                                                                         *)
(* Numbers.  Python integers are arbitrary precision: they are modelled   *)
(* as little-endian sequences of 15-bit limbs (Big).  A linear-scale      *)
(* number (int, or a float obtained from ints by multiplying and dividing *)
(* by decimal literals) is a signed decimal m * 10^e with m a Big.  A     *)
(* float on the log10 scale is an integer count of millionths.  The float *)
(* 10 ** x is carried as the record [tag |-> "pow10", micro |-> x]; its   *)
(* comparison with a literal T is decided by x < log10(T).                *)
(***************************************************************************)
EXTENDS Integers, Sequences, FiniteSets, TLC

VARIABLES
    routine,            \* the routine that was called
    pc,                 \* position inside the routine
    power,              \* argument of calculate_lhc_input_time / format_large_number
    n_bits,             \* argument of create_parallel_superposition
    total_numbers,      \* main.py:64
    bits_per_number,    \* main.py:65
    total_bits,         \* main.py:77
    log10_total,        \* main.py:81
    log10_bits,         \* main.py:82
    count_shown,        \* the "Total numbers to pulse" line, main.py:76 / 83
    rate_i,             \* index of the next entry of pulse_rates, main.py:99
    time_seconds,       \* main.py:101 / 115
    log10_time,         \* main.py:106
    log10_years,        \* main.py:109
    out,                \* the lines printed by the rate loop, main.py:112 / 139
    fastest_sequential, \* main.py:145
    log10_fastest,      \* main.py:149
    universe_shown,     \* the "x universe age" line, main.py:152
    stored_shown,       \* the "combinations stored" line, main.py:174 / 176
    returned,           \* the value the routine returned
    total_states,       \* parallel_lhc_computation.py:60
    amplitude,          \* parallel_lhc_computation.py:61
    cmp_i,              \* the position of the loop over powers, line 313
    rows,               \* the rows printed by the comparison, line 328
    exact_reads,        \* the places that read the literal integer 2^n
    log10_args,         \* the arguments math.log10 was called with
    divisors,           \* the right operands of the divisions performed
    err                 \* the exception raised, "none" while there is none

locals == << total_numbers, bits_per_number, total_bits, log10_total, log10_bits >>
loopvars == << rate_i, time_seconds, log10_time, log10_years, out >>
tailvars == << fastest_sequential, log10_fastest, universe_shown, stored_shown >>
cpsvars == << total_states, amplitude >>
cmpvars == << cmp_i, rows >>
tracevars == << exact_reads, log10_args, divisors >>

vars == << routine, pc, power, n_bits, locals, count_shown, loopvars, tailvars,
           returned, cpsvars, cmpvars, tracevars, err >>

---------------------------------------------------------------------------
(* Bounds of the model.                                                    *)

\* Negative exponents -MaxNeg .. -1 are tried as invalid input.
MaxNeg == 3
\* Every exponent 0 .. MaxSmall is tried (both sides of the cutoff 64).
MaxSmall == 72
\* The formatter is tried on mantissas 0 .. MaxMant ...
MaxMant == 12
\* ... times powers of ten 10^-MaxDecExp .. 10^MaxDecExp.
MaxDecExp == 13

---------------------------------------------------------------------------
(* Arbitrary-precision naturals.                                           *)

Limb == 2^15

RECURSIVE BigTrim(_)
BigTrim(b) ==
    IF b = << >> THEN b
    ELSE IF b[Len(b)] = 0 THEN BigTrim(SubSeq(b, 1, Len(b) - 1)) ELSE b

\* n < 2^31
BigFromNat(n) ==
    BigTrim(<< n % Limb, (n \div Limb) % Limb, n \div (Limb * Limb) >>)

\* the value of a Big of at most two limbs
BigToNat(b) ==
    IF Len(b) = 0 THEN 0
    ELSE IF Len(b) = 1 THEN b[1]
    ELSE b[1] + Limb * b[2]

RECURSIVE MulCarry(_, _, _, _)
MulCarry(b, k, i, c) ==
    IF i > Len(b) THEN << c >>
    ELSE LET t == b[i] * k + c
         IN  << t % Limb >> \o MulCarry(b, k, i + 1, t \div Limb)

\* b * k for 0 <= k < 2^15
BigMulSmall(b, k) == BigTrim(MulCarry(b, k, 1, 0))

\* b * 10^j.  (Here and below a step's result is bound by a quantifier
\* before the recursion goes on, so that it is a value and not a pending
\* expression when the next step reads it.)
RECURSIVE BigMulPow10(_, _)
BigMulPow10(b, j) ==
    IF j <= 0 THEN b
    ELSE CHOOSE r \in {BigMulPow10(v, j - 1) : v \in {BigMulSmall(b, 10)}} :
            TRUE

RECURSIVE AddCarry(_, _, _, _)
AddCarry(a, b, i, c) ==
    IF i > Len(a) /\ i > Len(b) THEN << c >>
    ELSE LET t == (IF i <= Len(a) THEN a[i] ELSE 0)
                  + (IF i <= Len(b) THEN b[i] ELSE 0) + c
         IN  << t % Limb >> \o AddCarry(a, b, i + 1, t \div Limb)

BigAdd(a, b) == BigTrim(AddCarry(a, b, 1, 0))

RECURSIVE DivFrom(_, _, _, _)
DivFrom(b, d, i, r) ==
    IF i = 0 THEN << >>
    ELSE LET t == r * Limb + b[i]
         IN  DivFrom(b, d, i - 1, t % d) \o << t \div d >>

\* floor(b / d) for 0 < d < 2^15
BigDivSmall(b, d) == BigTrim(DivFrom(b, d, Len(b), 0))

RECURSIVE CmpFrom(_, _, _)
CmpFrom(a, b, i) ==
    IF i = 0 THEN 0
    ELSE IF a[i] < b[i] THEN -1
    ELSE IF a[i] > b[i] THEN 1
    ELSE CmpFrom(a, b, i - 1)

\* -1, 0, 1 as a < b, a = b, a > b
BigCmp(a, b) ==
    IF Len(a) < Len(b) THEN -1
    ELSE IF Len(a) > Len(b) THEN 1
    ELSE CmpFrom(a, b, Len(a))

\* 2^n for n >= 0: one set bit
BigPow2(n) ==
    [i \in 1 .. ((n \div 15) + 1) |->
        IF i = (n \div 15) + 1 THEN 2^(n % 15) ELSE 0]

RECURSIVE BigPow5(_)
BigPow5(n) ==
    IF n = 0 THEN << 1 >>
    ELSE CHOOSE r \in {BigMulSmall(v, 5) : v \in {BigPow5(n - 1)}} : TRUE

---------------------------------------------------------------------------
(* Linear-scale numbers: (-1)^neg * m * 10^e.                              *)

Unset == [tag |-> "unset"]

Num(neg, m, e) == [tag |-> "num", neg |-> neg /\ m # << >>, m |-> m, e |-> e]

\* the literal k, or k * 10^e written "ke"
Lit(k, e) == Num(k < 0, BigFromNat(IF k < 0 THEN -k ELSE k), e)

Min(a, b) == IF a < b THEN a ELSE b

\* -1, 0, 1 as |a| < |b|, |a| = |b|, |a| > |b|
AbsCmp(a, b) ==
    LET e == Min(a.e, b.e)
    IN  BigCmp(BigMulPow10(a.m, a.e - e), BigMulPow10(b.m, b.e - e))

NumCmp(a, b) ==
    IF a.neg /\ ~b.neg THEN -1
    ELSE IF ~a.neg /\ b.neg THEN 1
    ELSE IF a.neg THEN AbsCmp(b, a)
    ELSE AbsCmp(a, b)

NumIsZero(a) == a.m = << >>

\* a * k for an integer k, |k| < 2^15
NumMulInt(a, k) ==
    Num((a.neg /\ k > 0) \/ (~a.neg /\ k < 0),
        BigMulSmall(a.m, IF k < 0 THEN -k ELSE k), a.e)

\* the product written where the quotient is meant
M_NumDivPow10(a, b) == Num(a.neg # b.neg, a.m, a.e + b.e)

\* a / b where b is a power of ten (every divisor of the code that is a
\* float literal "1eK" is)
NumDivPow10(a, b) == Num(a.neg # b.neg, a.m, a.e - b.e)

\* 2 ** p: an int for p >= 0, the float 0.5^-p = 5^-p * 10^p for p < 0
Pow2(p) ==
    IF p >= 0 THEN Num(FALSE, BigPow2(p), 0)
    ELSE Num(FALSE, BigPow5(-p), p)

RECURSIVE Factor(_, _)
\* the prime factors of d, smallest first
Factor(d, p) ==
    IF d <= 1 THEN << >>
    ELSE IF d % p = 0 THEN << p >> \o Factor(d \div p, p)
    ELSE Factor(d, p + 1)

RECURSIVE DivSeq(_, _, _)
DivSeq(b, fs, i) ==
    IF i > Len(fs) THEN b
    ELSE CHOOSE r \in {DivSeq(v, fs, i + 1) : v \in {BigDivSmall(b, fs[i])}} :
            TRUE

\* floor(b / d) for d > 0 whose prime factors are below 2^15
BigDivInt(b, d) == DivSeq(b, Factor(d, 2), 1)

RECURSIVE BigDivPow10(_, _)
BigDivPow10(b, j) ==
    IF j <= 0 THEN b
    ELSE CHOOSE r \in {BigDivPow10(v, j - 1) : v \in {BigDivSmall(b, 10)}} :
            TRUE

\* "{x:.2f}" of x = t * 10^mul / div: x rounded to hundredths, with the sign
\* of x (a negative x that rounds to zero prints "-0.00")
Fixed2(t, mul, div) ==
    LET sh   == t.e + mul + 2
        tens == IF sh < 0 THEN -sh ELSE 0
    IN  CHOOSE r \in
            {[tag |-> "num", neg |-> t.neg, m |-> BigDivPow10(q, tens), e |-> -2] :
                q \in {BigDivInt(BigDivSmall(BigAdd(n2, d), 2), div) :
                    n2 \in {BigMulSmall(BigMulPow10(t.m, sh), 2)},
                    d \in {BigMulPow10(BigFromNat(div), tens)}}} : TRUE

---------------------------------------------------------------------------
(* Log10-scale floats, in millionths.                                      *)

Micro == 10^6

\* a float that holds a base-10 logarithm
LogF(x) == [tag |-> "log10", micro |-> x]

\* int(x): truncation toward zero
IntTrunc(x) == IF x >= 0 THEN x \div Micro ELSE -((-x) \div Micro)

\* power * math.log10(2), with math.log10(2) = 0.3010299957
MulLog2(p) == p * 301029 + (p * 9957 + 5000) \div 10000

\* math.log10 of the integers the model applies it to, to the nearest
\* millionth
Log10Tab(n) ==
    CASE n = 1 -> 0 [] n = 2 -> 301030 [] n = 3 -> 477121 [] n = 4 -> 602060
      [] n = 5 -> 698970 [] n = 6 -> 778151 [] n = 7 -> 845098 [] n = 8 -> 903090
      [] n = 9 -> 954243 [] n = 10 -> 1000000 [] n = 11 -> 1041393 [] n = 12 -> 1079181
      [] n = 13 -> 1113943 [] n = 14 -> 1146128 [] n = 15 -> 1176091 [] n = 16 -> 1204120
      [] n = 17 -> 1230449 [] n = 18 -> 1255273 [] n = 19 -> 1278754 [] n = 20 -> 1301030
      [] n = 21 -> 1322219 [] n = 22 -> 1342423 [] n = 23 -> 1361728 [] n = 24 -> 1380211
      [] n = 25 -> 1397940 [] n = 26 -> 1414973 [] n = 27 -> 1431364 [] n = 28 -> 1447158
      [] n = 29 -> 1462398 [] n = 30 -> 1477121 [] n = 31 -> 1491362 [] n = 32 -> 1505150
      [] n = 33 -> 1518514 [] n = 34 -> 1531479 [] n = 35 -> 1544068 [] n = 36 -> 1556303
      [] n = 37 -> 1568202 [] n = 38 -> 1579784 [] n = 39 -> 1591065 [] n = 40 -> 1602060
      [] n = 41 -> 1612784 [] n = 42 -> 1623249 [] n = 43 -> 1633468 [] n = 44 -> 1643453
      [] n = 45 -> 1653213 [] n = 46 -> 1662758 [] n = 47 -> 1672098 [] n = 48 -> 1681241
      [] n = 49 -> 1690196 [] n = 50 -> 1698970 [] n = 51 -> 1707570 [] n = 52 -> 1716003
      [] n = 53 -> 1724276 [] n = 54 -> 1732394 [] n = 55 -> 1740363 [] n = 56 -> 1748188
      [] n = 57 -> 1755875 [] n = 58 -> 1763428 [] n = 59 -> 1770852 [] n = 60 -> 1778151
      [] n = 61 -> 1785330 [] n = 62 -> 1792392 [] n = 63 -> 1799341 [] n = 64 -> 1806180
      [] n = 65 -> 1812913 [] n = 66 -> 1819544 [] n = 67 -> 1826075 [] n = 68 -> 1832509
      [] n = 69 -> 1838849 [] n = 70 -> 1845098 [] n = 71 -> 1851258 [] n = 72 -> 1857332
      [] n = 73 -> 1863323 [] n = 74 -> 1869232 [] n = 75 -> 1875061 [] n = 76 -> 1880814
      [] n = 77 -> 1886491 [] n = 78 -> 1892095 [] n = 79 -> 1897627 [] n = 80 -> 1903090
      [] n = 81 -> 1908485 [] n = 82 -> 1913814 [] n = 83 -> 1919078 [] n = 84 -> 1924279
      [] n = 85 -> 1929419 [] n = 86 -> 1934498 [] n = 87 -> 1939519 [] n = 88 -> 1944483
      [] n = 89 -> 1949390 [] n = 90 -> 1954243 [] n = 91 -> 1959041 [] n = 92 -> 1963788
      [] n = 93 -> 1968483 [] n = 94 -> 1973128 [] n = 95 -> 1977724 [] n = 96 -> 1982271
      [] n = 97 -> 1986772 [] n = 98 -> 1991226 [] n = 99 -> 1995635 [] n = 100 -> 2000000
      [] n = 128 -> 2107210 [] n = 256 -> 2408240 [] n = 368 -> 2565848 [] n = 369 -> 2567026
      [] n = 378 -> 2577492 [] n = 379 -> 2578639 [] n = 388 -> 2588832 [] n = 389 -> 2589950
      [] n = 398 -> 2599883 [] n = 399 -> 2600973 [] n = 400 -> 2602060 [] n = 512 -> 2709270
      [] n = 1024 -> 3010300 [] n = 2048 -> 3311330 [] n = 3600 -> 3556303 [] n = 4096 -> 3612360
      [] n = 4097 -> 3612466 [] n = 31536 -> 4498807 [] n = 86400 -> 4936514 [] n = 31536000 -> 7498807
      [] n = 31557600 -> 7499104 [] n = 43549488 -> 7638983

Positive(x) == ~x.neg /\ x.m # << >>

\* math.log10(x) of a linear-scale x > 0
Log10Micro(x) ==
    IF x.m = << 1 >> THEN x.e * Micro
    ELSE Log10Tab(BigToNat(x.m)) + x.e * Micro

\* 10 ** x raises OverflowError above the largest float, 1.797e308
Pow10Overflows(x) == x > 308 * Micro + 254715

Pow10(x) == [tag |-> "pow10", micro |-> x]

\* "<=" written for "<"
M_Less(t, lit) ==
    IF t.tag = "pow10" THEN t.micro <= Log10Micro(lit)
    ELSE NumCmp(t, lit) <= 0

\* t < lit, for t a linear-scale number or a 10 ** x
Less(t, lit) ==
    IF t.tag = "pow10" THEN t.micro < Log10Micro(lit)
    ELSE NumCmp(t, lit) < 0

---------------------------------------------------------------------------
(* The program's constants and conditions.                                 *)

\* main.py:89-94; the rates are the float literals 1e6, 1e9, 1e12, 1e15
pulse_rates ==
    << [name |-> "Conservative (1 MHz)", hz |-> Lit(1, 6)],
       [name |-> "Standard (1 GHz)",     hz |-> Lit(1, 9)],
       [name |-> "Maximum (1 THz)",      hz |-> Lit(1, 12)],
       [name |-> "Theoretical Limit",    hz |-> Lit(1, 15)] >>

\* the conversion to years left out
M_SecondsPerYear == Lit(1, 0)

\* 365.25 * 24 * 3600, main.py:109
SecondsPerYear == Lit(36525 * 24 * 36, 0)

\* 13.8e9 * 365.25 * 24 * 3600, main.py:142
universe_age_seconds == Lit(138 * 315576, 10)

lhc_circumference == 27000
light_speed == 299792458

\* cutoffs that disagree with the other places
M_DisplayExact(p) == p < 64
M_LoopExact(p) == p < 64
M_EncodingExact(p) == p <= 640

\* the conditions "power <= 64" of main.py, one per place
DisplayExact(p) == p <= 64
LoopExact(p) == p <= 64
UniverseExact(p) == p <= 64
EncodingExact(p) == p <= 64

\* "n_bits <= 64", parallel_lhc_computation.py:61
AmplitudeExact(n) == n <= 64

\* "power <= 64", parallel_lhc_computation.py:243
FlnExact(p) == p <= 64

\* the cutoff of main.py written where line 251 has its own
M_FtiExact(p) == p <= 64

\* "power <= 30", parallel_lhc_computation.py:251
FtiExact(p) == p <= 30

\* "p <= 50", parallel_lhc_computation.py:314
CmpExact(p) == p <= 50

\* "p <= 20", parallel_lhc_computation.py:323
SpeedupExact(p) == p <= 20

\* a limit of 1000 for 100
M_RidiculouslyLarge(ly) == ly > 1000 * Micro

\* "log10_years > 100", main.py:111
RidiculouslyLarge(ly) == ly > 100 * Micro

\* round() for int()
M_YearsExponent(ly) == (ly + 500000) \div Micro

\* the exponent printed after "~10^", main.py:112
YearsExponent(ly) == IntTrunc(ly)

\* the if / elif chain of main.py:118-137: the unit, the power of ten the
\* value is multiplied by, the number it is divided by, the format
UnitCascade(t) ==
    IF Less(t, Lit(1, -9))
    THEN [unit |-> "picoseconds", mul |-> 12, div |-> 1, fmt |-> ".2f"]
    ELSE IF Less(t, Lit(1, -6))
    THEN [unit |-> "nanoseconds", mul |-> 9, div |-> 1, fmt |-> ".2f"]
    ELSE IF Less(t, Lit(1, -3))
    THEN [unit |-> "microseconds", mul |-> 6, div |-> 1, fmt |-> ".2f"]
    ELSE IF Less(t, Lit(1, 0))
    THEN [unit |-> "milliseconds", mul |-> 3, div |-> 1, fmt |-> ".2f"]
    ELSE IF Less(t, Lit(60, 0))
    THEN [unit |-> "seconds", mul |-> 0, div |-> 1, fmt |-> ".2f"]
    ELSE IF Less(t, Lit(3600, 0))
    THEN [unit |-> "minutes", mul |-> 0, div |-> 60, fmt |-> ".2f"]
    ELSE IF Less(t, Lit(86400, 0))
    THEN [unit |-> "hours", mul |-> 0, div |-> 3600, fmt |-> ".2f"]
    ELSE IF Less(t, Lit(31536000, 0))
    THEN [unit |-> "days", mul |-> 0, div |-> 86400, fmt |-> ".2f"]
    ELSE IF Less(t, Lit(31536, 6))
    THEN [unit |-> "years", mul |-> 0, div |-> 31536000, fmt |-> ".2f"]
    ELSE [unit |-> "years", mul |-> 0, div |-> 31536000, fmt |-> ".2e"]

\* the digits of a line: computed for ".2f" of a linear-scale number; a
\* ".2e" value and a 10 ** x are carried unrendered
Unrendered == [tag |-> "unrendered"]

\* the line printed at main.py:139
CascadeLine(name, t) ==
    LET c == UnitCascade(t)
    IN  [rate |-> name, form |-> "cascade", unit |-> c.unit, fmt |-> c.fmt,
         div |-> c.div, time |-> t,
         digits |-> IF c.fmt = ".2f" /\ t.tag = "num"
                    THEN Fixed2(t, c.mul, c.div) ELSE Unrendered]

\* the line printed at main.py:112
YearsLine(name, ly) ==
    [rate |-> name, form |-> "years-log-scale", k |-> YearsExponent(ly),
     log10_years |-> ly]

\* format_large_number, parallel_lhc_computation.py:241-247
format_large_number(p) ==
    IF FlnExact(p)
    THEN [tag |-> "exact", value |-> Pow2(p)]
    ELSE [tag |-> "log", k |-> IntTrunc(MulLog2(p)), log10_value |-> MulLog2(p)]

\* power * math.log10(2) - 15 - math.log10(365.25*24*3600),
\* parallel_lhc_computation.py:255 and 318
Log10YearsAtFemto(p) == MulLog2(p) - 15 * Micro - Log10Micro(SecondsPerYear)

\* 2**power * 1e-15, parallel_lhc_computation.py:252 and 315
SecondsAtFemto(p) == NumDivPow10(Pow2(p), Lit(1, 15))

\* format_time_impossible, parallel_lhc_computation.py:249-256
format_time_impossible(p) ==
    IF FtiExact(p)
    THEN [tag |-> "seconds", fmt |-> ".2e", value |-> SecondsAtFemto(p)]
    ELSE [tag |-> "log-years", k |-> IntTrunc(Log10YearsAtFemto(p)),
          log10_years |-> Log10YearsAtFemto(p)]

\* parallel_lhc_computation.py:308
powers == << 8, 16, 32, 64, 128, 256, 512, 1024, 2048, 4096 >>

\* seq_str, parallel_lhc_computation.py:314-319: seq_time is the quotient
\* num / div, printed in years if it is above 0.1 and in days, times
\* 365.25, if not
SeqStr(p) ==
    IF CmpExact(p)
    THEN [form |-> "exact", fmt |-> ".2e",
          num |-> SecondsAtFemto(p), div |-> SecondsPerYear,
          unit |-> IF NumCmp(NumMulInt(SecondsAtFemto(p), 10), SecondsPerYear) > 0
                   THEN "years" ELSE "days"]
    ELSE [form |-> "log", k |-> IntTrunc(Log10YearsAtFemto(p)),
          log10_years |-> Log10YearsAtFemto(p)]

\* speedup, parallel_lhc_computation.py:323-326
Speedup(p) ==
    IF SpeedupExact(p) THEN [tag |-> "exact", value |-> Pow2(p)]
    ELSE [tag |-> "str", p |-> p]

---------------------------------------------------------------------------
(* The inputs.                                                             *)

\* the landmark exponents above the contiguous range (main.py:196-201) and
\* the exponents on both sides of log10_years = 100 for each rate
ProbePowers ==
    {128, 256, 512, 1024, 2048, 4096}
        \cup {368, 369, 378, 379, 388, 389, 398, 399, 400}

Exponents == ((-MaxNeg) .. MaxSmall) \cup ProbePowers

Routines ==
    {"calculate_lhc_input_time", "create_parallel_superposition",
     "format_large_number", "format_time_impossible",
     "compare_sequential_vs_parallel"}

FmtMantissas ==
    (0 .. MaxMant) \cup {59, 60, 61, 3599, 3600, 3601, 9999, 31535, 31536,
                         31537, 86399, 86400, 86401}

FmtInputs ==
    {Lit(m, e) : m \in FmtMantissas, e \in (-MaxDecExp) .. MaxDecExp}

Fresh ==
    /\ total_numbers = Unset /\ bits_per_number = Unset
    /\ total_bits = Unset /\ log10_total = Unset /\ log10_bits = Unset
    /\ count_shown = Unset /\ rate_i = 0
    /\ log10_time = Unset /\ log10_years = Unset /\ out = << >>
    /\ fastest_sequential = Unset /\ log10_fastest = Unset
    /\ universe_shown = Unset /\ stored_shown = Unset /\ returned = Unset
    /\ total_states = Unset /\ amplitude = Unset
    /\ cmp_i = 0 /\ rows = << >>
    /\ exact_reads = {} /\ log10_args = {} /\ divisors = {}
    /\ err = "none"

\* a routine was called with an exponent
Init ==
    /\ routine \in Routines
    /\ pc = "call"
    /\ \E p \in Exponents :
          IF routine = "create_parallel_superposition"
          THEN n_bits = p /\ power = Unset
          ELSE IF routine = "compare_sequential_vs_parallel"
          THEN n_bits = Unset /\ power = Unset
          ELSE power = p /\ n_bits = Unset
    /\ time_seconds = Unset
    /\ Fresh

\* the unit cascade is entered with a duration
InitFmt ==
    /\ routine = "format"
    /\ pc = "call"
    /\ power = Unset /\ n_bits = Unset
    /\ time_seconds \in FmtInputs
    /\ Fresh

---------------------------------------------------------------------------
(* calculate_lhc_input_time, main.py:60-182.                               *)

Calc == routine = "calculate_lhc_input_time"

\* an exception leaves the routine
Raise(e) ==
    /\ err' = e
    /\ pc' = "raised"
    /\ UNCHANGED << routine, cmpvars, power, n_bits, locals, count_shown, loopvars,
                    tailvars, returned, cpsvars, tracevars >>

\* the count of numbers taken for the count of bits
M_TotalBits(tn, bpn) == tn

\* "total_numbers * bits_per_number", main.py:77
TotalBits(tn, bpn) == NumMulInt(tn, bpn)

\* main.py:64-65
Magnitude ==
    /\ Calc /\ pc = "call"
    /\ total_numbers' = Pow2(power)
    /\ bits_per_number' = power
    /\ pc' = "l75"
    /\ UNCHANGED << routine, cmpvars, power, n_bits, total_bits, log10_total,
                    log10_bits, count_shown, loopvars, tailvars, returned,
                    cpsvars, tracevars, err >>

\* main.py:75-86
Display ==
    /\ Calc /\ pc = "l75"
    /\ IF DisplayExact(power)
       THEN /\ count_shown' = [tag |-> "exact", value |-> total_numbers]
            /\ total_bits' = TotalBits(total_numbers, bits_per_number)
            /\ exact_reads' = exact_reads \cup {"main.py:76", "main.py:77"}
            /\ pc' = "loop"
            /\ rate_i' = 1
            /\ UNCHANGED << log10_total, log10_bits, log10_args, err >>
       ELSE IF bits_per_number <= 0
       THEN /\ err' = "ValueError"
            /\ pc' = "raised"
            /\ log10_total' = LogF(MulLog2(power))
            /\ log10_args' = log10_args \cup {Lit(2, 0), Lit(bits_per_number, 0)}
            /\ UNCHANGED << total_bits, log10_bits, count_shown, rate_i,
                            exact_reads >>
       ELSE /\ log10_total' = LogF(MulLog2(power))
            /\ log10_bits' =
                  LogF(MulLog2(power) + Log10Micro(Lit(bits_per_number, 0)))
            /\ log10_args' = log10_args \cup {Lit(2, 0), Lit(bits_per_number, 0)}
            /\ count_shown' = [tag |-> "log", k |-> IntTrunc(MulLog2(power)),
                               log10_value |-> MulLog2(power)]
            /\ pc' = "loop"
            /\ rate_i' = 1
            /\ UNCHANGED << total_bits, exact_reads, err >>
    /\ UNCHANGED << routine, cmpvars, power, n_bits, total_numbers, bits_per_number,
                    time_seconds, log10_time, log10_years, out, tailvars,
                    returned, cpsvars, divisors >>

\* the loop left one rate early
M_AfterRate == IF rate_i >= Len(pulse_rates) - 1 THEN "l142" ELSE "loop"

\* what follows an iteration: the next rate, or the end of the loop
AfterRate == IF rate_i = Len(pulse_rates) THEN "l142" ELSE "loop"

\* main.py:101 and 117-139
ExactIteration(rate) ==
    IF total_bits = Unset THEN Raise("UnboundLocalError")
    ELSE IF NumIsZero(rate.hz) THEN Raise("ZeroDivisionError")
    ELSE /\ time_seconds' = NumDivPow10(total_bits, rate.hz)
         /\ divisors' = divisors \cup {rate.hz}
         /\ out' = Append(out, CascadeLine(rate.name, time_seconds'))
         /\ rate_i' = rate_i + 1
         /\ pc' = AfterRate
         /\ UNCHANGED << routine, cmpvars, power, n_bits, locals, count_shown,
                         log10_time, log10_years, tailvars, returned,
                         cpsvars, exact_reads, log10_args, err >>

\* main.py:104-115 and 117-139
LogIteration(rate) ==
    IF log10_bits = Unset THEN Raise("UnboundLocalError")
    ELSE IF ~Positive(rate.hz) THEN Raise("ValueError")
    ELSE LET lt == log10_bits.micro - Log10Micro(rate.hz)
             ly == lt - Log10Micro(SecondsPerYear)
         IN  IF RidiculouslyLarge(ly)
             THEN /\ log10_time' = LogF(lt)
                  /\ log10_years' = LogF(ly)
                  /\ log10_args' = log10_args \cup {rate.hz, SecondsPerYear}
                  /\ out' = Append(out, YearsLine(rate.name, ly))
                  /\ rate_i' = rate_i + 1
                  /\ pc' = AfterRate
                  /\ UNCHANGED << routine, cmpvars, power, n_bits, locals,
                                  count_shown, time_seconds, tailvars,
                                  returned, cpsvars, exact_reads, divisors,
                                  err >>
             ELSE IF Pow10Overflows(lt) THEN Raise("OverflowError")
             ELSE /\ log10_time' = LogF(lt)
                  /\ log10_years' = LogF(ly)
                  /\ log10_args' = log10_args \cup {rate.hz, SecondsPerYear}
                  /\ time_seconds' = Pow10(lt)
                  /\ out' = Append(out, CascadeLine(rate.name, Pow10(lt)))
                  /\ rate_i' = rate_i + 1
                  /\ pc' = AfterRate
                  /\ UNCHANGED << routine, cmpvars, power, n_bits, locals,
                                  count_shown, tailvars, returned, cpsvars,
                                  exact_reads, divisors, err >>

\* one pass of the loop over pulse_rates, main.py:99-139
RateStep ==
    /\ Calc /\ pc = "loop" /\ rate_i <= Len(pulse_rates)
    /\ IF LoopExact(power)
       THEN ExactIteration(pulse_rates[rate_i])
       ELSE LogIteration(pulse_rates[rate_i])

\* main.py:142-152
UniverseAge ==
    /\ Calc /\ pc = "l142"
    /\ IF UniverseExact(power)
       THEN IF total_bits = Unset THEN Raise("UnboundLocalError")
            ELSE /\ fastest_sequential' = NumDivPow10(total_bits, Lit(1, 15))
                 /\ divisors' = divisors \cup {Lit(1, 15)}
                 /\ pc' = "l164"
                 /\ UNCHANGED << routine, cmpvars, power, n_bits, locals, count_shown,
                                 loopvars, log10_fastest, universe_shown,
                                 stored_shown, returned, cpsvars, exact_reads,
                                 log10_args, err >>
       ELSE IF log10_bits = Unset THEN Raise("UnboundLocalError")
            ELSE /\ log10_fastest' = LogF(log10_bits.micro - 15 * Micro)
                 /\ log10_args' = log10_args \cup {universe_age_seconds}
                 /\ universe_shown' =
                       IF log10_fastest'.micro > Log10Micro(universe_age_seconds)
                       THEN [k |-> IntTrunc(log10_fastest'.micro
                                       - Log10Micro(universe_age_seconds))]
                       ELSE universe_shown
                 /\ pc' = "l164"
                 /\ UNCHANGED << routine, cmpvars, power, n_bits, locals, count_shown,
                                 loopvars, fastest_sequential, stored_shown,
                                 returned, cpsvars, exact_reads, divisors,
                                 err >>

\* main.py:164-182
Encoding ==
    /\ Calc /\ pc = "l164"
    /\ IF light_speed = 0 THEN Raise("ZeroDivisionError")
       ELSE IF ~EncodingExact(power) /\ log10_total = Unset
       THEN Raise("UnboundLocalError")
       ELSE /\ divisors' = divisors \cup {Lit(light_speed, 0)}
            /\ stored_shown' =
                  IF EncodingExact(power)
                  THEN [tag |-> "exact", value |-> total_numbers]
                  ELSE [tag |-> "log", k |-> IntTrunc(log10_total.micro)]
            /\ exact_reads' =
                  IF EncodingExact(power)
                  THEN exact_reads \cup {"main.py:174"} ELSE exact_reads
            /\ returned' = [tag |-> "circulation_time",
                            num |-> lhc_circumference, den |-> light_speed]
            /\ pc' = "done"
            /\ UNCHANGED << routine, cmpvars, power, n_bits, locals, count_shown,
                            loopvars, fastest_sequential, log10_fastest,
                            universe_shown, cpsvars, log10_args, err >>

---------------------------------------------------------------------------
(* parallel_lhc_computation.py                                             *)

\* format_large_number called on its own, as at line 292
FormatLargeNumber ==
    /\ routine = "format_large_number" /\ pc = "call"
    /\ returned' = format_large_number(power)
    /\ log10_args' = IF FlnExact(power) THEN log10_args
                     ELSE log10_args \cup {Lit(2, 0)}
    /\ pc' = "done"
    /\ UNCHANGED << routine, cmpvars, power, n_bits, locals, count_shown, loopvars,
                    tailvars, cpsvars, exact_reads, divisors, err >>

Cps == routine = "create_parallel_superposition"

\* create_parallel_superposition, line 60
TotalStates ==
    /\ Cps /\ pc = "call"
    /\ total_states' = Pow2(n_bits)
    /\ pc' = "l61"
    /\ UNCHANGED << routine, cmpvars, power, n_bits, locals, count_shown, loopvars,
                    tailvars, returned, amplitude, tracevars, err >>

\* create_parallel_superposition, line 61
Amplitude ==
    /\ Cps /\ pc = "l61"
    /\ IF AmplitudeExact(n_bits)
       THEN IF ~Positive(total_states) THEN Raise("ZeroDivisionError")
            ELSE /\ amplitude' = [tag |-> "float", one_over_sqrt |-> total_states]
                 /\ exact_reads' = exact_reads \cup {"parallel_lhc_computation.py:61"}
                 /\ pc' = "l76"
                 /\ UNCHANGED << routine, cmpvars, power, n_bits, locals, count_shown,
                                 loopvars, tailvars, returned, total_states,
                                 log10_args, divisors, err >>
       ELSE /\ amplitude' = [tag |-> "str", n_bits |-> n_bits]
            /\ pc' = "l76"
            /\ UNCHANGED << routine, cmpvars, power, n_bits, locals, count_shown,
                            loopvars, tailvars, returned, total_states,
                            tracevars, err >>

\* create_parallel_superposition, lines 70-79: the call of
\* format_large_number(n_bits) and the return of the QuantumState
StatesCreated ==
    /\ Cps /\ pc = "l76"
    /\ power' = n_bits
    /\ count_shown' = format_large_number(n_bits)
    /\ log10_args' = IF FlnExact(n_bits) THEN log10_args
                     ELSE log10_args \cup {Lit(2, 0)}
    /\ returned' = [tag |-> "QuantumState", n_qubits |-> n_bits]
    /\ pc' = "done"
    /\ UNCHANGED << routine, cmpvars, n_bits, locals, loopvars, tailvars, cpsvars,
                    exact_reads, divisors, err >>

\* format_time_impossible called on its own, as at lines 197 and 293
Fti == routine = "format_time_impossible"

FormatTimeImpossible ==
    /\ Fti /\ pc = "call"
    /\ returned' = format_time_impossible(power)
    /\ log10_args' = IF FtiExact(power) THEN log10_args
                     ELSE log10_args \cup {Lit(2, 0), SecondsPerYear}
    /\ pc' = "done"
    /\ UNCHANGED << routine, cmpvars, power, n_bits, locals, count_shown,
                    loopvars, tailvars, cpsvars, exact_reads, divisors, err >>

Cmp == routine = "compare_sequential_vs_parallel"

\* compare_sequential_vs_parallel, lines 304-311
Powers ==
    /\ Cmp /\ pc = "call"
    /\ cmp_i' = 1
    /\ pc' = "loop"
    /\ UNCHANGED << routine, rows, power, n_bits, locals, count_shown,
                    loopvars, tailvars, returned, cpsvars, tracevars, err >>

\* one pass of the loop over powers, lines 313-328
CompareRow ==
    /\ Cmp /\ pc = "loop" /\ cmp_i <= Len(powers)
    /\ LET p == powers[cmp_i]
       IN  /\ rows' = Append(rows, [power |-> p, seq_str |-> SeqStr(p),
                                    parallel_str |-> "25 minutes",
                                    speedup |-> Speedup(p)])
           /\ exact_reads' =
                 exact_reads
                    \cup (IF CmpExact(p)
                          THEN {"parallel_lhc_computation.py:315"} ELSE {})
                    \cup (IF SpeedupExact(p)
                          THEN {"parallel_lhc_computation.py:324"} ELSE {})
           /\ log10_args' = IF CmpExact(p) THEN log10_args
                            ELSE log10_args \cup {Lit(2, 0), SecondsPerYear}
           /\ divisors' = IF CmpExact(p) THEN divisors \cup {SecondsPerYear}
                          ELSE divisors
    /\ cmp_i' = cmp_i + 1
    /\ pc' = IF cmp_i = Len(powers) THEN "done" ELSE "loop"
    /\ UNCHANGED << routine, power, n_bits, locals, count_shown, loopvars,
                    tailvars, returned, cpsvars, err >>

---------------------------------------------------------------------------
(* The unit cascade on its own, main.py:117-139.                           *)

FormatDuration ==
    /\ routine = "format" /\ pc = "call"
    /\ out' = << CascadeLine("", time_seconds) >>
    /\ pc' = "done"
    /\ UNCHANGED << routine, cmpvars, power, n_bits, locals, count_shown, rate_i,
                    time_seconds, log10_time, log10_years, tailvars,
                    returned, cpsvars, tracevars, err >>

---------------------------------------------------------------------------

Next ==
    \/ Magnitude
    \/ Display
    \/ RateStep
    \/ UniverseAge
    \/ Encoding
    \/ FormatLargeNumber
    \/ TotalStates
    \/ Amplitude
    \/ StatesCreated
    \/ FormatTimeImpossible
    \/ Powers
    \/ CompareRow

Spec == Init /\ [][Next]_vars

NextFmt == FormatDuration

SpecFmt == InitFmt /\ [][NextFmt]_vars

---------------------------------------------------------------------------
(* Properties.                                                             *)

Fln == routine = "format_large_number"

\* 2^n by repeated multiplication, eight doublings at a time
RECURSIVE Doubling(_)
Doubling(n) ==
    IF n < 8 THEN << 2 ^ n >>
    ELSE CHOOSE r \in {BigMulSmall(v, 256) : v \in {Doubling(n - 8)}} : TRUE

ExactShown(s, n) == s.tag = "exact" /\ s.value = Num(FALSE, Doubling(n), 0)

\* log10(2) lies between 0.301029 and 0.301030
LogShown(s, n) ==
    /\ s.tag = "log"
    /\ n * 301029 <= s.log10_value
    /\ s.log10_value <= n * 301030

ShownByMode(s, n) == IF n <= 64 THEN ExactShown(s, n) ELSE LogShown(s, n)

C2_NeverMaterialized ==
    /\ (Calc /\ power > 64) => total_numbers = Unset
    /\ (Cps /\ n_bits > 64) => total_states = Unset
    /\ (Fln /\ power > 64 /\ pc = "done") => returned.tag # "exact"

\* C2 as amended: for n > 64 calculate_lhc_input_time (line 64) and
\* create_parallel_superposition (line 60) do compute and hold 2^n, but
\* nothing reads it: the bit count, every displayed count and every
\* duration come from log10-scale values; format_large_number does not
\* compute it.
C2_LiteralHeldButUnused ==
    /\ (Calc /\ power > 64) =>
          /\ pc # "call" => total_numbers = Num(FALSE, BigPow2(power), 0)
          /\ exact_reads = {}
          /\ total_bits = Unset /\ fastest_sequential = Unset
          /\ count_shown # Unset => count_shown.tag = "log"
          /\ stored_shown # Unset => stored_shown.tag = "log"
          /\ \A i \in 1 .. Len(out) :
                out[i].form = "cascade" => out[i].time.tag = "pow10"
    /\ (Cps /\ n_bits > 64) =>
          /\ pc # "call" => total_states = Num(FALSE, BigPow2(n_bits), 0)
          /\ exact_reads = {}
          /\ amplitude # Unset => amplitude.tag = "str"
          /\ count_shown # Unset => count_shown.tag = "log"
    /\ (Fln /\ power > 64 /\ pc = "done") => returned.tag = "log"

C2_Witness ==
    /\ Calc /\ pc = "done" /\ power = 4096
    /\ total_numbers.tag = "num" /\ Len(total_numbers.m) = 274
    /\ exact_reads = {}

\* the table of the claim: unit, format, lower bound, upper bound
Branches ==
    << [unit |-> "picoseconds", fmt |-> ".2f", lo |-> Lit(0, 0), hi |-> Lit(1, -9)],
       [unit |-> "nanoseconds", fmt |-> ".2f", lo |-> Lit(1, -9), hi |-> Lit(1, -6)],
       [unit |-> "microseconds", fmt |-> ".2f", lo |-> Lit(1, -6), hi |-> Lit(1, -3)],
       [unit |-> "milliseconds", fmt |-> ".2f", lo |-> Lit(1, -3), hi |-> Lit(1, 0)],
       [unit |-> "seconds", fmt |-> ".2f", lo |-> Lit(1, 0), hi |-> Lit(60, 0)],
       [unit |-> "minutes", fmt |-> ".2f", lo |-> Lit(60, 0), hi |-> Lit(3600, 0)],
       [unit |-> "hours", fmt |-> ".2f", lo |-> Lit(3600, 0), hi |-> Lit(86400, 0)],
       [unit |-> "days", fmt |-> ".2f", lo |-> Lit(86400, 0), hi |-> Lit(31536000, 0)],
       [unit |-> "years", fmt |-> ".2f", lo |-> Lit(31536000, 0), hi |-> Lit(31536, 6)],
       [unit |-> "years", fmt |-> ".2e", lo |-> Lit(31536, 6), hi |-> Unset] >>

InBranch(t, b) ==
    /\ NumCmp(t, b.lo) >= 0
    /\ b.hi = Unset \/ NumCmp(t, b.hi) < 0

\* C3: every non-negative duration is formatted by exactly one branch of
\* the table, the one whose range [lo, hi) holds it: a duration equal to a
\* boundary takes the upper branch.
C3_OneBranchLowerInclusive ==
    (routine = "format" /\ pc = "done") =>
        LET hit == {i \in 1 .. Len(Branches) : InBranch(time_seconds, Branches[i])}
        IN  /\ Cardinality(hit) = 1
            /\ Len(out) = 1
            /\ \A i \in hit :
                  /\ out[1].unit = Branches[i].unit
                  /\ out[1].fmt = Branches[i].fmt
            /\ time_seconds = Lit(9999, -7) => out[1].unit = "microseconds"
            /\ time_seconds = Lit(1, -3) => out[1].unit = "milliseconds"
            /\ time_seconds = Lit(60, 0) => out[1].unit = "minutes"

C3_Witness ==
    /\ routine = "format" /\ pc = "done"
    /\ time_seconds = Lit(1, -3)
    /\ out[1].unit = "milliseconds"

\* C4 as claimed: for n = 8 at 1e9 Hz the bit count is 256, the duration
\* 2.56e-7 s, the line "256.00 nanoseconds".
C4_Claimed ==
    (Calc /\ power = 8 /\ Len(out) >= 2) =>
        /\ total_bits = Lit(256, 0)
        /\ out[2].time = Lit(256, -9)
        /\ out[2].unit = "nanoseconds"
        /\ out[2].digits = Lit(25600, -2)

\* C4 as amended: for n = 8 at 1e9 Hz the bit count is 2^8 * 8 = 2048, the
\* duration 2.048e-6 s, the line "2.05 microseconds".
C4_Actual ==
    (Calc /\ power = 8 /\ Len(out) >= 2) =>
        /\ pulse_rates[2].hz = Lit(1, 9)
        /\ out[2].rate = pulse_rates[2].name
        /\ total_numbers = Lit(256, 0)
        /\ total_bits = Lit(2048, 0)
        /\ out[2].time = Lit(2048, -9)
        /\ out[2].unit = "microseconds"
        /\ out[2].fmt = ".2f"
        /\ out[2].digits = Lit(205, -2)

C4_Witness ==
    /\ Calc /\ power = 8 /\ pc = "done"
    /\ out[2].unit = "microseconds" /\ out[2].digits = Lit(205, -2)

\* C5: on the log-scale path (n > 64) each rate's log10_years is
\* log10_bits - log10(rate) - log10(365.25 * 86400); above 100 the line is
\* the years-log-scale form and the cascade is not entered (time_seconds
\* stays unassigned); at 100 or below the duration is 10 ** log10_time and
\* the cascade formats it.
C5_YearsLogShortCircuit ==
    (Calc /\ power > 64 /\ Len(out) >= 1) =>
        LET i == Len(out)
            l == out[i]
        IN  /\ log10_time.micro = log10_bits.micro - Log10Micro(pulse_rates[i].hz)
            /\ log10_years.micro = log10_time.micro - Log10Micro(Lit(31557600, 0))
            /\ IF log10_years.micro > 100 * Micro
               THEN /\ l.form = "years-log-scale"
                    /\ l.log10_years = log10_years.micro
                    /\ time_seconds = Unset
               ELSE /\ l.form = "cascade"
                    /\ l.time = [tag |-> "pow10", micro |-> log10_time.micro]
                    /\ time_seconds = l.time

C5_Witness ==
    /\ Calc /\ power = 398 /\ pc = "done"
    /\ out[3].form = "years-log-scale"
    /\ out[4].form = "cascade"

\* C6 as claimed: the exponent of a years-log-scale line is log10_years
\* rounded to the nearest integer.
C6_Rounded ==
    \A i \in 1 .. Len(out) :
        out[i].form = "years-log-scale" =>
            out[i].k = (out[i].log10_years + 500000) \div Micro

\* C6 as amended: the exponent of a years-log-scale line is log10_years
\* truncated to an integer (int): k <= log10_years < k + 1, also when the
\* fractional part is 0.5 or more.
C6_Truncated ==
    \A i \in 1 .. Len(out) :
        out[i].form = "years-log-scale" =>
            /\ out[i].log10_years > 100 * Micro
            /\ out[i].k * Micro <= out[i].log10_years
            /\ out[i].log10_years < (out[i].k + 1) * Micro

C6_Witness ==
    \E i \in 1 .. Len(out) :
        /\ out[i].form = "years-log-scale"
        /\ out[i].log10_years % Micro >= 500000
        /\ out[i].k = out[i].log10_years \div Micro

\* C7 as claimed: for n = 4096 at 1e15 Hz the line is "~10^1221 years".
C7_Claimed ==
    (Calc /\ power = 4096 /\ Len(out) = 4) =>
        /\ out[4].form = "years-log-scale"
        /\ out[4].k = 1221

\* C7 as amended: for n = 4096 at 1e15 Hz log10_years exceeds 100, the
\* line has the years-log-scale form, and it is "~10^1214 years".
C7_Actual ==
    (Calc /\ power = 4096 /\ Len(out) = 4) =>
        /\ pulse_rates[4].hz = Lit(1, 15)
        /\ out[4].rate = pulse_rates[4].name
        /\ out[4].form = "years-log-scale"
        /\ out[4].log10_years > 100 * Micro
        /\ out[4].k = 1214

C7_Witness ==
    /\ Calc /\ power = 4096 /\ pc = "done"
    /\ out[4].form = "years-log-scale" /\ out[4].k = 1214

\* C8: a call with a negative exponent ends with InvalidExponent, and
\* returns and prints nothing.
C8_InvalidExponentSignalled ==
    ((Calc \/ Fln) /\ power < 0 /\ pc = "done") =>
        /\ err = "InvalidExponent"
        /\ returned = Unset
        /\ out = << >>

ValidCall == ((Calc \/ Fln) /\ power >= 0) \/ (Cps /\ n_bits >= 0)

\* C9: for a valid exponent no exception is raised, every divisor is
\* positive, math.log10 is applied to positive arguments only (never to
\* bits_per_number = 0), and the call never stops in an error.
C9_Total ==
    ValidCall =>
        /\ err = "none" /\ pc # "raised"
        /\ \A a \in log10_args : Positive(a)
        /\ \A d \in divisors : Positive(d)
        /\ (Calc /\ power <= 64) => log10_args = {}

C9_Witness ==
    /\ Calc /\ power = 65 /\ pc = "done" /\ err = "none"
    /\ Lit(65, 0) \in log10_args
    /\ Lit(1, 15) \in log10_args

\* log10 of the seconds of a line of the log-scale path
LineLog10Seconds(l) ==
    IF l.form = "years-log-scale"
    THEN l.log10_years + Log10Micro(SecondsPerYear)
    ELSE l.time.micro

\* C10: for a fixed exponent n >= 1 (a positive bit count) the rates of
\* the table increase and the durations strictly decrease, as seconds on
\* the exact path and as log10 seconds on the log-scale path.
C10_DurationsDecrease ==
    (Calc /\ power >= 1) =>
        \A i, j \in 1 .. Len(out) :
            i < j =>
                /\ out[i].rate = pulse_rates[i].name
                /\ NumCmp(pulse_rates[i].hz, pulse_rates[j].hz) < 0
                /\ IF power <= 64
                   THEN NumCmp(out[i].time, out[j].time) > 0
                   ELSE LineLog10Seconds(out[i]) > LineLog10Seconds(out[j])

C10_Witness ==
    /\ Calc /\ power = 64 /\ pc = "done" /\ Len(out) = 4
    /\ NumCmp(out[1].time, out[4].time) > 0

\* C11: for any exponent the loop over the rate table prints exactly one
\* line per rate, in the order of the table (1e6, 1e9, 1e12, 1e15): a rate
\* that takes the years-log-scale "continue" has its one line too, no later
\* rate is skipped or printed twice, and after the loop the number of lines
\* is the number of rates.
C11_OneLinePerRate ==
    (Calc /\ pc \notin {"call", "l75"}) =>
        /\ Len(pulse_rates) = 4
        /\ \A i \in 1 .. 4 : pulse_rates[i].hz = Lit(1, 3 + 3 * i)
        /\ Len(out) = rate_i - 1
        /\ pc = "loop" => rate_i <= Len(pulse_rates)
        /\ pc \in {"l142", "l164", "done"} => Len(out) = Len(pulse_rates)
        /\ \A i \in 1 .. Len(out) :
              /\ out[i].rate = pulse_rates[i].name
              /\ out[i].form \in {"cascade", "years-log-scale"}

C11_Witness ==
    /\ Calc /\ pc = "done" /\ power = 388 /\ Len(out) = 4
    /\ out[1].form = "years-log-scale" /\ out[2].form = "years-log-scale"
    /\ out[3].form = "cascade" /\ out[4].form = "cascade"
    /\ out[3].rate = "Maximum (1 THz)"

\* C12 as claimed: every routine that chooses between exact arithmetic on
\* 2^n and logarithms is exact if and only if the exponent is at most 64.
C12_SameCutoff ==
    /\ (Calc /\ pc \notin {"call", "l75"}) =>
          ((count_shown.tag = "exact") <=> (power <= 64))
    /\ (Fln /\ pc = "done") => ((returned.tag = "exact") <=> (power <= 64))
    /\ (Fti /\ pc = "done") => ((returned.tag = "seconds") <=> (power <= 64))
    /\ Cmp => \A i \in 1 .. Len(rows) :
                 (rows[i].seq_str.form = "exact") <=> (rows[i].power <= 64)

\* C12 as amended: the cutoffs differ.  calculate_lhc_input_time (the
\* display, the loop and the encoding line) and format_large_number are
\* exact if and only if the exponent is at most 64, format_time_impossible
\* if and only if it is at most 30, compare_sequential_vs_parallel if and
\* only if it is at most 50 (its speedup column at most 20); the four agree
\* for n <= 30 and for n > 64 only.
C12_CutoffsDiffer ==
    /\ (Calc /\ pc \notin {"call", "l75"}) =>
          /\ (count_shown.tag = "exact") <=> (power <= 64)
          /\ \A i \in 1 .. Len(out) :
                (out[i].form = "cascade" /\ out[i].time.tag = "num")
                    <=> (power <= 64)
          /\ pc = "done" => ((stored_shown.tag = "exact") <=> (power <= 64))
    /\ (Fln /\ pc = "done") => ((returned.tag = "exact") <=> (power <= 64))
    /\ (Fti /\ pc = "done") =>
          /\ (returned.tag = "seconds") <=> (power <= 30)
          /\ (returned.tag = "log-years") <=> (power > 30)
          /\ (returned.tag = "seconds") = (format_large_number(power).tag = "exact")
                <=> (power <= 30 \/ power > 64)
    /\ Cmp => \A i \in 1 .. Len(rows) :
                 /\ rows[i].power = powers[i]
                 /\ (rows[i].seq_str.form = "exact") <=> (rows[i].power <= 50)
                 /\ (rows[i].speedup.tag = "exact") <=> (rows[i].power <= 20)
                 /\ (rows[i].seq_str.form = "exact")
                        = (format_large_number(rows[i].power).tag = "exact")
                       <=> (rows[i].power <= 50 \/ rows[i].power > 64)

C12_Witness ==
    /\ Fti /\ pc = "done" /\ power = 31
    /\ returned.tag = "log-years"
    /\ format_large_number(power).tag = "exact"

\* log10 of a duration of the cascade, or the duration itself, against a
\* literal: -1 below, 0 equal, 1 above
CmpLit(t, lit) ==
    IF t.tag = "pow10"
    THEN (IF t.micro < Log10Micro(lit) THEN -1
          ELSE IF t.micro = Log10Micro(lit) THEN 0 ELSE 1)
    ELSE NumCmp(t, lit)

\* C13: a year has the same number of seconds wherever a duration is put
\* in years: a cascade line in years divides by the 365.25 * 24 * 3600 of
\* the log10_years conversion, and the cascade passes from days to years at
\* that same number of seconds.
C13_OneYearLength ==
    Calc =>
        \A i \in 1 .. Len(out) :
            out[i].form = "cascade" =>
                /\ out[i].unit = "years" =>
                      /\ NumCmp(Lit(out[i].div, 0), SecondsPerYear) = 0
                      /\ CmpLit(out[i].time, SecondsPerYear) >= 0
                /\ out[i].unit = "days" =>
                      CmpLit(out[i].time, SecondsPerYear) < 0

=============================================================================
